---------------------------- MODULE Spec2Model ----------------------------
(***************************************************************************)
(* Model of the hcaptcha verification client and HTTP middleware           *)
(* (package hcaptcha): Client.Handler, Client.SiteVerify,                  *)
(* Client.VerifyToken, getFormValue and Get.                               *)
(*                                                                         *)
(* One invocation of the package runs at a time.  An invocation blocks at  *)
(* c.HTTPClient.PostForm and at io.ReadAll; the remote service and the     *)
(* transport answer in separate steps.  Everything else a call does is     *)
(* synchronous and is part of the step that reaches it.                    *)
(***************************************************************************)
EXTENDS Naturals, Sequences, FiniteSets

\* Cap on the transport call counter (number of PostForm calls observed).
MaxPosts == 2

(***************************************************************************)
(* Errors.  A Go error is modelled by its message; ErrNil is the nil       *)
(* error.                                                                  *)
(***************************************************************************)
ErrNil == "nil"
ErrNotMultipart == "request Content-Type isn't multipart/form-data"
ErrMalformedMultipart == "multipart: NextPart: EOF"
ErrMalformedQuery == "invalid URL escape"
ErrEmptyForm == "form[h-captcha-response] is empty"
ErrEmptyTkn == "tkn is empty"
ErrContextCanceled == "context canceled"
ErrJSONSyntax == "invalid character 'x' looking for beginning of value"
ErrJSONNotObject == "json: cannot unmarshal array into Go value of type hcaptcha.Response"

ResponseFormKey == "h-captcha-response"
OtherFormKey == "button"
FormKeys == {ResponseFormKey, OtherFormKey}

(***************************************************************************)
(* url.Values: a map from keys to lists of strings, possibly the nil map.  *)
(***************************************************************************)
NoEntry == [present |-> FALSE, vals |-> <<>>]
Entry(vs) == [present |-> TRUE, vals |-> vs]
NilValues == [isNil |-> TRUE, m |-> [k \in FormKeys |-> NoEntry]]
MakeValues == [isNil |-> FALSE, m |-> [k \in FormKeys |-> NoEntry]]
ValuesOf(h, o) ==
    [isNil |-> FALSE,
     m |-> [k \in FormKeys |-> IF k = ResponseFormKey THEN h ELSE o]]

\* len(values)
ValuesLen(v) == Cardinality({k \in FormKeys : v.m[k].present})

\* url.Values.Get: the first value of the key, "" when there is none.
ValuesGet(v, key) ==
    IF v.m[key].present /\ Len(v.m[key].vals) > 0 THEN v.m[key].vals[1] ELSE ""

\* copyValues(dst, src): append every list of src to dst's list of that key.
CopyValues(dst, src) ==
    [isNil |-> FALSE,
     m |-> [k \in FormKeys |->
              IF src.m[k].present
              THEN Entry(dst.m[k].vals \o src.m[k].vals)
              ELSE dst.m[k]]]

(***************************************************************************)
(* context.Context: the cancellation root it descends from and the chain   *)
(* of values stored on it, most recent last.                               *)
(***************************************************************************)
ResponseContextKey == "hcaptcha"

StringValue(s) == [type |-> "string", str |-> s]
ResponseValue(resp) == [type |-> "Response", resp |-> resp]

BackgroundCtx == [root |-> "background", vals |-> <<>>]
RequestCtx == [root |-> "request", vals |-> <<>>]
\* A request on whose context an earlier middleware stored its own value
\* under the same key.
ShadowedCtx ==
    [root |-> "request",
     vals |-> <<[key |-> ResponseContextKey, val |-> StringValue("earlier")]>>]

WithValue(ctx, key, val) ==
    [ctx EXCEPT !.vals = Append(@, [key |-> key, val |-> val])]

HasValue(ctx, key) == \E i \in 1..Len(ctx.vals) : ctx.vals[i].key = key

\* ctx.Value(key): the most recently stored value of the key.
CtxValue(ctx, key) ==
    LET idx == {i \in 1..Len(ctx.vals) : ctx.vals[i].key = key}
        last == CHOOSE i \in idx : \A j \in idx : j <= i
    IN  ctx.vals[last].val

(***************************************************************************)
(* Response, the verdict.                                                  *)
(***************************************************************************)
ZeroResponse ==
    [ChallengeTS |-> "", Hostname |-> "", ErrorCodes |-> <<>>,
     Success |-> FALSE, Credit |-> FALSE]

AppendErrorCode(resp, msg) == [resp EXCEPT !.ErrorCodes = Append(@, msg)]


(***************************************************************************)
(* http.Request, as far as the package reads it: the three parsed form     *)
(* fields, the context, and what is on the wire (content type, URL query,  *)
(* body fields).  MultipartForm is nil or holds the Value map.             *)
(***************************************************************************)
NilMultipart == [isNil |-> TRUE, Value |-> NilValues]
MultipartOf(v) == [isNil |-> FALSE, Value |-> v]

Request(form, postForm, multipart, ct, query, body, ctx) ==
    [Form |-> form, PostForm |-> postForm, MultipartForm |-> multipart,
     ct |-> ct, query |-> query, body |-> body, ctx |-> ctx]

\* No request: the invocation is a direct VerifyToken call.
NoRequest ==
    Request(NilValues, NilValues, NilMultipart, "none", MakeValues, MakeValues,
            BackgroundCtx)

\* r.WithContext(ctx): a shallow copy of r with its context replaced.
WithContext(r, ctx) == [r EXCEPT !.ctx = ctx]

\* net/http Request.ParseForm: PostForm from a url-encoded body, Form from
\* PostForm followed by the URL query.  A malformed body yields the pairs
\* parsed so far and an error.
ParseForm(r) ==
    LET postForm ==
            IF r.PostForm.isNil
            THEN IF r.ct \in {"urlencoded", "urlencoded-malformed"}
                 THEN r.body ELSE MakeValues
            ELSE r.PostForm
        err == IF r.PostForm.isNil /\ r.ct = "urlencoded-malformed"
               THEN ErrMalformedQuery ELSE ErrNil
        form ==
            IF r.Form.isNil
            THEN IF ValuesLen(postForm) > 0
                 THEN CopyValues(CopyValues(MakeValues, postForm), r.query)
                 ELSE r.query
            ELSE r.Form
    IN  [r |-> [r EXCEPT !.PostForm = postForm, !.Form = form], err |-> err]

\* net/http Request.ParseMultipartForm(maxMemory): ParseForm when Form is
\* nil, then the multipart body; its values are appended to Form and
\* PostForm.  The error of the multipart reader is returned before the one
\* ParseForm left.
ParseMultipartForm(r) ==
    LET pf == IF r.Form.isNil THEN ParseForm(r) ELSE [r |-> r, err |-> ErrNil]
        r1 == pf.r
    IN  IF ~r1.MultipartForm.isNil THEN [r |-> r1, err |-> ErrNil]
        ELSE IF r1.ct \notin {"multipart", "multipart-malformed"}
        THEN [r |-> r1, err |-> ErrNotMultipart]
        ELSE IF r1.ct = "multipart-malformed"
        THEN [r |-> r1, err |-> ErrMalformedMultipart]
        ELSE [r |-> [r1 EXCEPT !.Form = CopyValues(r1.Form, r1.body),
                               !.PostForm = CopyValues(r1.PostForm, r1.body),
                               !.MultipartForm = MultipartOf(r1.body)],
              err |-> pf.err]

\* getFormValue with the sources consulted by "first source that carries
\* the field" instead of "first non-empty source".
getFormValueFirstMatching(r, key) ==
    LET p == ParseMultipartForm(r)
        q == p.r
    IN  IF p.err # ErrNil /\ p.err # ErrNotMultipart
        THEN [r |-> q, token |-> "", err |-> p.err]
        ELSE IF q.Form.m[key].present /\ Len(q.Form.m[key].vals) > 0
        THEN [r |-> q, token |-> ValuesGet(q.Form, key), err |-> ErrNil]
        ELSE IF q.PostForm.m[key].present /\ Len(q.PostForm.m[key].vals) > 0
        THEN [r |-> q, token |-> ValuesGet(q.PostForm, key), err |-> ErrNil]
        ELSE IF ~q.MultipartForm.isNil
                /\ q.MultipartForm.Value.m[key].present
                /\ Len(q.MultipartForm.Value.m[key].vals) > 0
        THEN [r |-> q, token |-> q.MultipartForm.Value.m[key].vals[1],
              err |-> ErrNil]
        ELSE [r |-> q, token |-> "", err |-> ErrNil]

\* getFormValue(r, key): the request as the parse left it, the token and
\* the error.
getFormValue(r, key) ==
    LET p == ParseMultipartForm(r)
        q == p.r
    IN  IF p.err # ErrNil /\ p.err # ErrNotMultipart
        THEN [r |-> q, token |-> "", err |-> p.err]
        ELSE IF ValuesLen(q.Form) > 0
        THEN [r |-> q, token |-> ValuesGet(q.Form, key), err |-> ErrNil]
        ELSE IF ValuesLen(q.PostForm) > 0
        THEN [r |-> q, token |-> ValuesGet(q.PostForm, key), err |-> ErrNil]
        ELSE IF ~q.MultipartForm.isNil
                /\ ValuesLen(q.MultipartForm.Value) > 0
                /\ Len(q.MultipartForm.Value.m[key].vals) > 0
        THEN [r |-> q, token |-> q.MultipartForm.Value.m[key].vals[1],
              err |-> ErrNil]
        ELSE [r |-> q, token |-> "", err |-> ErrNil]

\* Get(r): the Response stored on r's context and whether one was found.
Get(r) ==
    IF HasValue(r.ctx, ResponseContextKey)
       /\ CtxValue(r.ctx, ResponseContextKey).type = "Response"
    THEN [response |-> CtxValue(r.ctx, ResponseContextKey).resp, found |-> TRUE]
    ELSE [response |-> ZeroResponse, found |-> FALSE]

(***************************************************************************)
(* The inbound requests.                                                   *)
(***************************************************************************)
WireFieldMaps ==
    {ValuesOf(h, o) : h \in {NoEntry, Entry(<<"">>), Entry(<<"abc123">>)},
                      o \in {NoEntry, Entry(<<"OK">>)}}
QueryMaps == {MakeValues, ValuesOf(Entry(<<"qtok">>), NoEntry)}

\* Requests as the server hands them over: nothing parsed yet.
WireRequests ==
    {Request(NilValues, NilValues, NilMultipart, "none", q, MakeValues, RequestCtx) :
        q \in WireFieldMaps}
    \cup
    {Request(NilValues, NilValues, NilMultipart, ct, q, b, RequestCtx) :
        ct \in {"urlencoded", "multipart"}, q \in QueryMaps, b \in WireFieldMaps}
    \cup
    {Request(NilValues, NilValues, NilMultipart, "urlencoded-malformed", MakeValues,
             b, RequestCtx) :
        b \in {MakeValues, ValuesOf(Entry(<<"abc123">>), NoEntry)}}
    \cup
    {Request(NilValues, NilValues, NilMultipart, "multipart-malformed", MakeValues,
             MakeValues, RequestCtx)}

\* Requests whose exported form fields code other than net/http filled.
PresetRequests ==
    {Request(f, p, m, "none", MakeValues, MakeValues, RequestCtx) :
        f \in {NilValues, MakeValues, ValuesOf(NoEntry, Entry(<<"OK">>)),
               ValuesOf(Entry(<<"abc123">>), NoEntry)},
        p \in {NilValues, ValuesOf(Entry(<<"tok2">>), NoEntry),
               ValuesOf(NoEntry, Entry(<<"OK">>))},
        m \in {NilMultipart,
               MultipartOf(ValuesOf(Entry(<<"mp3", "mp4">>), NoEntry)),
               MultipartOf(ValuesOf(NoEntry, Entry(<<"OK">>)))}}

\* Requests whose context already carries a value under the package's key.
ShadowedRequests ==
    {Request(NilValues, NilValues, NilMultipart, "urlencoded", MakeValues, b,
             ShadowedCtx) : b \in WireFieldMaps}

Requests == WireRequests \cup PresetRequests \cup ShadowedRequests

(***************************************************************************)
(* The body of the remote answer, as encoding/json sees it: not JSON at    *)
(* all, the literal null, a JSON value that is no object, or an object     *)
(* whose members are each absent or a value of some JSON type.             *)
(***************************************************************************)
JSONKeys == <<"success", "challenge_ts", "hostname", "credit", "error-codes">>

Absent == [present |-> FALSE, type |-> "null", b |-> FALSE, s |-> "", a |-> <<>>]
JBool(v) == [present |-> TRUE, type |-> "bool", b |-> v, s |-> "", a |-> <<>>]
JString(v) == [present |-> TRUE, type |-> "string", b |-> FALSE, s |-> v, a |-> <<>>]
JNumber == [present |-> TRUE, type |-> "number", b |-> FALSE, s |-> "", a |-> <<>>]
JArray(v) == [present |-> TRUE, type |-> "array", b |-> FALSE, s |-> "", a |-> v]

JSONObject(success, ts, hostname, credit, codes) ==
    [kind |-> "object", success |-> success, challenge_ts |-> ts,
     hostname |-> hostname, credit |-> credit, codes |-> codes]
JSONOther(kind) ==
    [kind |-> kind, success |-> Absent, challenge_ts |-> Absent,
     hostname |-> Absent, credit |-> Absent, codes |-> Absent]

\* Nothing read: the value of body before io.ReadAll returns.
NoBody == JSONOther("unread")

\* The Go type each member of Response decodes from.
WantedType(key) ==
    CASE key = "success" -> "bool"
      [] key = "credit" -> "bool"
      [] key = "error-codes" -> "array"
      [] OTHER -> "string"

Member(body, key) ==
    CASE key = "success" -> body.success
      [] key = "challenge_ts" -> body.challenge_ts
      [] key = "hostname" -> body.hostname
      [] key = "credit" -> body.credit
      [] OTHER -> body.codes

TypeErrorOf(key) ==
    CASE key = "success" -> "json: cannot unmarshal into Go struct field Response.success of type bool"
      [] key = "challenge_ts" -> "json: cannot unmarshal into Go struct field Response.challenge_ts of type string"
      [] key = "hostname" -> "json: cannot unmarshal into Go struct field Response.hostname of type string"
      [] key = "credit" -> "json: cannot unmarshal into Go struct field Response.credit of type bool"
      [] OTHER -> "json: cannot unmarshal into Go struct field Response.error-codes of type []string"

DecodeErrors ==
    {ErrJSONSyntax, ErrJSONNotObject} \cup
    {TypeErrorOf(JSONKeys[i]) : i \in 1..Len(JSONKeys)}

Decodes(body, key) ==
    Member(body, key).present /\ Member(body, key).type = WantedType(key)
Mistyped(body, key) ==
    Member(body, key).present /\ Member(body, key).type # WantedType(key)

\* json.Unmarshal(body, &response): a syntax error or a value that is no
\* object leaves response as it was; in an object every member of the right
\* type is stored, a member of the wrong type is skipped, and the error
\* returned is the type error of the first such member.
Unmarshal(body, response) ==
    LET bad == {i \in 1..Len(JSONKeys) : Mistyped(body, JSONKeys[i])}
    IN  CASE body.kind = "invalid" -> [response |-> response, err |-> ErrJSONSyntax]
          [] body.kind = "null" -> [response |-> response, err |-> ErrNil]
          [] body.kind = "array" -> [response |-> response, err |-> ErrJSONNotObject]
          [] OTHER ->
             [response |->
                 [ChallengeTS |-> IF Decodes(body, "challenge_ts")
                                  THEN body.challenge_ts.s ELSE response.ChallengeTS,
                  Hostname |-> IF Decodes(body, "hostname")
                               THEN body.hostname.s ELSE response.Hostname,
                  ErrorCodes |-> IF Decodes(body, "error-codes")
                                 THEN body.codes.a ELSE response.ErrorCodes,
                  Success |-> IF Decodes(body, "success")
                              THEN body.success.b ELSE response.Success,
                  Credit |-> IF Decodes(body, "credit")
                             THEN body.credit.b ELSE response.Credit],
              err |-> IF bad = {} THEN ErrNil
                      ELSE TypeErrorOf(JSONKeys[CHOOSE i \in bad : \A j \in bad : i <= j])]

\* The bodies the remote service (or whatever answers in its place) sends.
Bodies ==
    {JSONObject(s, IF h = JString("H") THEN JString("T") ELSE Absent, h, Absent, c) :
        s \in {Absent, JBool(TRUE), JBool(FALSE), JString("yes")},
        h \in {Absent, JString("H"), JNumber},
        c \in {Absent, JArray(<<"invalid-input-response">>)}}
    \cup
    {JSONObject(JBool(TRUE), JString("T"), JString("H"), JBool(TRUE), Absent),
     JSONObject(JBool(TRUE), JString("T"), JString("H"), Absent, JNumber),
     JSONOther("invalid"), JSONOther("null"), JSONOther("array")}

(***************************************************************************)
(* The Client and the state of the invocation in progress.                 *)
(***************************************************************************)
VARIABLES
    client,      \* the Client: FailureHandler, RemoteIP, SiteKey, secret
    pc,          \* "idle", "PostForm" (blocked in c.HTTPClient.PostForm),
                 \* "ReadAll" (blocked in io.ReadAll), "done" (returned)
    call,        \* the invocation: its kind, next, the request passed in, the
                 \* token VerifyToken was called with, postCount on entry
    req,         \* the request object r points to (ParseMultipartForm fills it)
    extracted,   \* generatedResponseID, err of SiteVerify
    response,    \* the named result of VerifyToken / SiteVerify
    retAt,       \* the return statement the verdict came from
    v,           \* Handler's local v
    dispatched,  \* the ServeHTTP calls Handler made, each with its request
    postCount,   \* transport call counter: PostForm calls so far
    post,        \* the PostForm call: its form values, the context it runs
                 \* under, the error it returned, the error io.ReadAll returned
    body,        \* what io.ReadAll returned
    cancelled    \* roots of the contexts cancelled so far

vars ==
    <<client, pc, call, req, extracted, response, retAt, v, dispatched,
      postCount, post, body, cancelled>>

Secrets == {"0x0000000000000000000000000000000000000000"}
FailureHandlers == {"nil", "DefaultFailureHandler", "F"}
NextHandlers == {"H"}
RemoteIPs == {"", "203.0.113.7"}
SiteKeys == {"", "10000000-ffff-ffff-ffff-000000000001"}
Tokens == {"", "abc123"}
PostErrors == {"dial tcp: connect: connection refused", "Client.Timeout exceeded while awaiting headers"}
ReadErrors == {"unexpected EOF"}
LocalErrorSites == {"L150", "L157", "L163"}

\* New(secret)
New(secret) ==
    [FailureHandler |-> "DefaultFailureHandler", RemoteIP |-> "", SiteKey |-> "",
     secret |-> secret]

NoValues ==
    [secret |-> NoEntry, response |-> NoEntry, remoteip |-> NoEntry,
     sitekey |-> NoEntry]
NoPost ==
    [values |-> NoValues, ctx |-> BackgroundCtx, err |-> ErrNil, readErr |-> ErrNil]
NoCall ==
    [kind |-> "none", next |-> "nil", arg |-> NoRequest, tkn |-> "",
     verifyToken |-> FALSE, postsAtEntry |-> 0]
NotExtracted == [token |-> "", err |-> ErrNil]

\* The form values of VerifyToken with remoteip and sitekey always added.
PostValuesAlwaysOptional(c, tkn) ==
    [secret |-> Entry(<<c.secret>>), response |-> Entry(<<tkn>>),
     remoteip |-> Entry(<<c.RemoteIP>>), sitekey |-> Entry(<<c.SiteKey>>)]

\* The url.Values VerifyToken posts.
PostValues(c, tkn) ==
    [secret |-> Entry(<<c.secret>>), response |-> Entry(<<tkn>>),
     remoteip |-> IF c.RemoteIP # "" THEN Entry(<<c.RemoteIP>>) ELSE NoEntry,
     sitekey |-> IF c.SiteKey # "" THEN Entry(<<c.SiteKey>>) ELSE NoEntry]

\* The context c.HTTPClient.PostForm runs the request under: PostForm builds
\* it with NewRequest, that is under context.Background().
PostContext(r) == BackgroundCtx

\* The errors the transport can fail with: it honours the context it was given.
TransportErrors(ctx, errs) ==
    errs \cup (IF ctx.root \in cancelled THEN {ErrContextCanceled} ELSE {})

\* Handler's r.WithContext(context.WithValue(r.Context(), key, v)) storing
\* nothing.
DerivedRequestUnchanged(r, verdict) == r

\* Handler's r = r.WithContext(context.WithValue(r.Context(), key, v)).
DerivedRequest(r, verdict) ==
    WithContext(r, WithValue(r.ctx, ResponseContextKey, ResponseValue(verdict)))

\* Handler's dispatch with the failure handler fired whatever the verdict.
DispatchAlwaysFailure(c, next, r, verdict) ==
    IF c.FailureHandler # "nil"
    THEN <<[handler |-> "FailureHandler", h |-> c.FailureHandler, r |-> r]>>
    ELSE <<>>

\* Handler's dispatch: the ServeHTTP calls it makes for verdict.
Dispatch(c, next, r, verdict) ==
    IF verdict.Success
    THEN <<[handler |-> "next", h |-> next, r |-> r]>>
    ELSE IF c.FailureHandler # "nil"
    THEN <<[handler |-> "FailureHandler", h |-> c.FailureHandler, r |-> r]>>
    ELSE <<>>

(***************************************************************************)
(* The synchronous head of VerifyToken and SiteVerify: either the call     *)
(* returns at once (returned, with the verdict and the return statement)   *)
(* or it goes on to post tkn.  verifyToken tells whether VerifyToken was   *)
(* entered, and tkn with which token.                                      *)
(***************************************************************************)
ReturnNow(verdict, site, vt, tkn) ==
    [returned |-> TRUE, verdict |-> verdict, site |-> site, verifyToken |-> vt,
     tkn |-> tkn]
GoOnToPost(tkn) ==
    [returned |-> FALSE, verdict |-> ZeroResponse, site |-> "none",
     verifyToken |-> TRUE, tkn |-> tkn]

\* VerifyToken without its check of the empty token.
VerifyTokenEntryUnchecked(tkn) == GoOnToPost(tkn)

\* VerifyToken(tkn), lines 127-130: the empty token returns at once.
VerifyTokenEntry(tkn) ==
    IF tkn = ""
    THEN ReturnNow(AppendErrorCode(ZeroResponse, ErrEmptyTkn), "L129", TRUE, tkn)
    ELSE GoOnToPost(tkn)

\* SiteVerify verifying the name of the form field instead of its value.
SiteVerifyEntryWrongToken(e) ==
    IF e.err # ErrNil
    THEN ReturnNow(AppendErrorCode(ZeroResponse, e.err), "L107", FALSE, "")
    ELSE IF e.token = ""
    THEN ReturnNow(AppendErrorCode(ZeroResponse, ErrEmptyForm), "L113", FALSE, "")
    ELSE VerifyTokenEntry(ResponseFormKey)

\* SiteVerify(r) after getFormValue returned e.
SiteVerifyEntry(e) ==
    IF e.err # ErrNil
    THEN ReturnNow(AppendErrorCode(ZeroResponse, e.err), "L107", FALSE, "")
    ELSE IF e.token = ""
    THEN ReturnNow(AppendErrorCode(ZeroResponse, ErrEmptyForm), "L113", FALSE, "")
    ELSE VerifyTokenEntry(e.token)

\* VerifyToken after a failed PostForm, dropping the error.
PostFailedSilently(resp, err) == resp

\* VerifyToken after PostForm failed with err, lines 148-151.
PostFailed(resp, err) == AppendErrorCode(resp, err)

\* VerifyToken after io.ReadAll failed with err, lines 155-158.
ReadFailed(resp, err) == AppendErrorCode(resp, err)

\* VerifyToken after io.ReadAll returned b, lines 160-166: the verdict and
\* the return statement.
Decoded(resp, b) ==
    LET u == Unmarshal(b, resp)
    IN  IF u.err # ErrNil
        THEN [verdict |-> AppendErrorCode(u.response, u.err), site |-> "L163"]
        ELSE [verdict |-> u.response, site |-> "L166"]

\* The verdict returns: to VerifyToken's caller, or through SiteVerify to
\* Handler, which stores it on a derived request and dispatches.
Returns(cl, r, verdict, site) ==
    /\ response' = verdict
    /\ retAt' = site
    /\ pc' = "done"
    /\ IF cl.kind = "Handler"
       THEN /\ v' = verdict
            /\ dispatched' =
                  Dispatch(client, cl.next, DerivedRequest(r, verdict), verdict)
       ELSE UNCHANGED <<v, dispatched>>

\* The call either returns or blocks in c.HTTPClient.PostForm.
Proceed(cl, r, entry) ==
    IF entry.returned
    THEN /\ Returns(cl, r, entry.verdict, entry.site)
         /\ UNCHANGED <<postCount, post>>
    ELSE /\ postCount < MaxPosts
         /\ postCount' = postCount + 1
         /\ post' = [values |-> PostValues(client, entry.tkn),
                     ctx |-> PostContext(r), err |-> ErrNil,
                     readErr |-> ErrNil]
         /\ pc' = "PostForm"
         /\ UNCHANGED <<response, retAt, v, dispatched>>

Init ==
    /\ client \in {New(s) : s \in Secrets}
    /\ pc = "idle"
    /\ call = NoCall
    /\ req = NoRequest
    /\ extracted = NotExtracted
    /\ response = ZeroResponse
    /\ retAt = "none"
    /\ v = ZeroResponse
    /\ dispatched = <<>>
    /\ postCount = 0
    /\ post = NoPost
    /\ body = NoBody
    /\ cancelled = {}

(***************************************************************************)
(* The owner sets the Client's exported fields between invocations.        *)
(***************************************************************************)
SetFailureHandler(h) ==
    /\ pc = "idle"
    /\ client.FailureHandler # h
    /\ client' = [client EXCEPT !.FailureHandler = h]
    /\ UNCHANGED <<pc, call, req, extracted, response, retAt, v, dispatched,
                   postCount, post, body, cancelled>>

SetRemoteIP(ip) ==
    /\ pc = "idle"
    /\ client.RemoteIP # ip
    /\ client' = [client EXCEPT !.RemoteIP = ip]
    /\ UNCHANGED <<pc, call, req, extracted, response, retAt, v, dispatched,
                   postCount, post, body, cancelled>>

SetSiteKey(k) ==
    /\ pc = "idle"
    /\ client.SiteKey # k
    /\ client' = [client EXCEPT !.SiteKey = k]
    /\ UNCHANGED <<pc, call, req, extracted, response, retAt, v, dispatched,
                   postCount, post, body, cancelled>>

(***************************************************************************)
(* The middleware c.Handler(next) serves r: SiteVerify(r) up to the point  *)
(* where it returns or blocks in PostForm.                                 *)
(***************************************************************************)
ServeHTTP(next, r) ==
    /\ pc = "idle"
    /\ LET e == getFormValue(r, ResponseFormKey)
           entry == SiteVerifyEntry(e)
           cl == [kind |-> "Handler", next |-> next, arg |-> r,
                  tkn |-> entry.tkn, verifyToken |-> entry.verifyToken,
                  postsAtEntry |-> postCount]
       IN  /\ req' = e.r
           /\ extracted' = [token |-> e.token, err |-> e.err]
           /\ call' = cl
           /\ Proceed(cl, e.r, entry)
    /\ UNCHANGED <<client, body, cancelled>>

\* A direct call c.VerifyToken(tkn).
CallVerifyToken(tkn) ==
    /\ pc = "idle"
    /\ LET entry == VerifyTokenEntry(tkn)
           cl == [kind |-> "VerifyToken", next |-> "nil", arg |-> NoRequest,
                  tkn |-> entry.tkn, verifyToken |-> entry.verifyToken,
                  postsAtEntry |-> postCount]
       IN  /\ req' = NoRequest
           /\ extracted' = NotExtracted
           /\ call' = cl
           /\ Proceed(cl, NoRequest, entry)
    /\ UNCHANGED <<client, body, cancelled>>

\* c.HTTPClient.PostForm returns an error (line 147-151).
PostFormFails(err) ==
    /\ pc = "PostForm"
    /\ err \in TransportErrors(post.ctx, PostErrors)
    /\ post' = [post EXCEPT !.err = err]
    /\ Returns(call, req, PostFailed(response, err), "L150")
    /\ UNCHANGED <<client, call, req, extracted, postCount, body, cancelled>>

\* c.HTTPClient.PostForm returns a response; VerifyToken reads its body.
PostFormReturns ==
    /\ pc = "PostForm"
    /\ pc' = "ReadAll"
    /\ UNCHANGED <<client, call, req, extracted, response, retAt, v, dispatched,
                   postCount, post, body, cancelled>>

\* io.ReadAll(resp.Body) returns an error (lines 153-158).
ReadAllFails(err) ==
    /\ pc = "ReadAll"
    /\ err \in TransportErrors(post.ctx, ReadErrors)
    /\ post' = [post EXCEPT !.readErr = err]
    /\ Returns(call, req, ReadFailed(response, err), "L157")
    /\ UNCHANGED <<client, call, req, extracted, postCount, body, cancelled>>

\* io.ReadAll returns the body b; VerifyToken decodes it (lines 160-166).
ReadAllReturns(b) ==
    /\ pc = "ReadAll"
    /\ body' = b
    /\ Returns(call, req, Decoded(response, b).verdict, Decoded(response, b).site)
    /\ UNCHANGED <<client, call, req, extracted, postCount, post, cancelled>>

\* The client of the inbound request disconnects, or the request's deadline
\* passes, while the invocation is blocked: the request's context is
\* cancelled.
CancelRequest ==
    /\ pc \in {"PostForm", "ReadAll"}
    /\ call.kind = "Handler"
    /\ req.ctx.root \notin cancelled
    /\ cancelled' = cancelled \cup {req.ctx.root}
    /\ UNCHANGED <<client, pc, call, req, extracted, response, retAt, v,
                   dispatched, postCount, post, body>>

\* The invocation is over; the next one starts from a clean slate.
Finish ==
    /\ pc = "done"
    /\ pc' = "idle"
    /\ call' = NoCall
    /\ req' = NoRequest
    /\ extracted' = NotExtracted
    /\ response' = ZeroResponse
    /\ retAt' = "none"
    /\ v' = ZeroResponse
    /\ dispatched' = <<>>
    /\ post' = NoPost
    /\ body' = NoBody
    /\ cancelled' = {}
    /\ UNCHANGED <<client, postCount>>

Next ==
    \/ \E h \in FailureHandlers : SetFailureHandler(h)
    \/ \E ip \in RemoteIPs : SetRemoteIP(ip)
    \/ \E k \in SiteKeys : SetSiteKey(k)
    \/ \E next \in NextHandlers, r \in Requests : ServeHTTP(next, r)
    \/ \E tkn \in Tokens : CallVerifyToken(tkn)
    \/ \E err \in PostErrors \cup {ErrContextCanceled} : PostFormFails(err)
    \/ PostFormReturns
    \/ \E err \in ReadErrors \cup {ErrContextCanceled} : ReadAllFails(err)
    \/ \E b \in Bodies : ReadAllReturns(b)
    \/ CancelRequest
    \/ Finish

Spec == Init /\ [][Next]_vars

(***************************************************************************)
(* Properties.                                                             *)
(***************************************************************************)
HandlerDone == pc = "done" /\ call.kind = "Handler"
Blocked == pc \in {"PostForm", "ReadAll"}
Codes(resp) == {resp.ErrorCodes[i] : i \in 1..Len(resp.ErrorCodes)}
Carries(values, key) == values.m[key].present /\ Len(values.m[key].vals) > 0

\* C1 as stated: every request the middleware serves ends with exactly one
\* handler dispatched, exactly once: next when the verdict has success=true,
\* the FailureHandler when it has success=false, whatever value
\* Client.FailureHandler holds.
C1_ExactlyOneHandlerAlways ==
    HandlerDone =>
        /\ Len(dispatched) = 1
        /\ dispatched[1].handler = IF v.Success THEN "next" ELSE "FailureHandler"

\* C1 amended: a verdict with success=true dispatches next exactly once and
\* nothing else; a verdict with success=false dispatches the FailureHandler
\* exactly once and nothing else when Client.FailureHandler is not nil, and
\* dispatches no handler at all when it is nil.
C1_DispatchByVerdict ==
    HandlerDone =>
        /\ v.Success =>
             /\ Len(dispatched) = 1
             /\ dispatched[1].handler = "next"
             /\ dispatched[1].h = call.next
        /\ (~v.Success /\ client.FailureHandler # "nil") =>
             /\ Len(dispatched) = 1
             /\ dispatched[1].handler = "FailureHandler"
             /\ dispatched[1].h = client.FailureHandler
        /\ (~v.Success /\ client.FailureHandler = "nil") => dispatched = <<>>

C1_Witness ==
    /\ HandlerDone
    /\ ~v.Success
    /\ client.FailureHandler = "nil"
    /\ dispatched = <<>>
    /\ retAt = "L166"

\* C2: next is invoked only for a request for which a remote POST was issued,
\* whose body was read and decoded without error, and whose decoded verdict
\* has success=true; never after an input, transport, read or decode error.
C2_NextOnlyWhenVerified ==
    (HandlerDone /\ Len(dispatched) > 0 /\ dispatched[1].handler = "next") =>
        /\ postCount = call.postsAtEntry + 1
        /\ retAt = "L166"
        /\ Unmarshal(body, ZeroResponse).err = ErrNil
        /\ Unmarshal(body, ZeroResponse).response.Success

\* C3: in whichever handler the middleware dispatches to, Get on the request
\* that handler receives returns found=true and the verdict SiteVerify
\* returned, error codes included; the context of the request passed in is
\* left as it was.
C3_VerdictOnDerivedContext ==
    HandlerDone =>
        /\ \A i \in 1..Len(dispatched) :
              Get(dispatched[i].r) = [response |-> response, found |-> TRUE]
        /\ req.ctx = call.arg.ctx

C3_Witness ==
    /\ HandlerDone
    /\ Len(dispatched) = 1
    /\ dispatched[1].handler = "FailureHandler"
    /\ response.ErrorCodes = <<"invalid-input-response">>
    /\ call.arg.ctx = ShadowedCtx
    /\ Get(dispatched[1].r).found
    /\ ~Get(req).found

\* C4: VerifyToken called with the empty token returns at once a verdict with
\* success=false and the empty-token message as its only error code, and the
\* transport call counter is what it was on entry.
C4_EmptyTokenNoPost ==
    (call.verifyToken /\ call.tkn = "") =>
        /\ pc = "done"
        /\ ~response.Success
        /\ response.ErrorCodes = <<ErrEmptyTkn>>
        /\ postCount = call.postsAtEntry
        /\ post = NoPost

C4_Witness ==
    /\ pc = "done"
    /\ call.kind = "VerifyToken"
    /\ call.tkn = ""
    /\ retAt = "L129"
    /\ postCount = 1

\* C5: VerifyToken called with a non-empty token issues exactly one POST,
\* whatever becomes of it; the form posted holds secret with the Client's
\* secret, response with the token, remoteip exactly when RemoteIP is not
\* empty and sitekey exactly when SiteKey is not empty.
C5_ExactlyOnePost ==
    (call.verifyToken /\ call.tkn # "") =>
        /\ postCount = call.postsAtEntry + 1
        /\ post.values.secret = Entry(<<client.secret>>)
        /\ post.values.response = Entry(<<call.tkn>>)
        /\ post.values.remoteip.present <=> client.RemoteIP # ""
        /\ post.values.remoteip.present =>
              post.values.remoteip.vals = <<client.RemoteIP>>
        /\ post.values.sitekey.present <=> client.SiteKey # ""
        /\ post.values.sitekey.present =>
              post.values.sitekey.vals = <<client.SiteKey>>

C5_Witness ==
    /\ pc = "done"
    /\ call.verifyToken
    /\ call.tkn = "abc123"
    /\ client.RemoteIP # ""
    /\ client.SiteKey = ""
    /\ post.values.remoteip.present
    /\ ~post.values.sitekey.present
    /\ postCount = 2

\* C6: a body that fails to decode yields a verdict with success=false whose
\* error codes contain the decode error, and no returned verdict has
\* success=true together with an error code of a transport, read or decode
\* failure.
C6_DecodeFailureMeansUnverified ==
    /\ (pc = "done" /\ body # NoBody /\ Unmarshal(body, ZeroResponse).err # ErrNil) =>
          /\ ~response.Success
          /\ Unmarshal(body, ZeroResponse).err \in Codes(response)
    /\ (pc = "done" /\ response.Success) => retAt \notin LocalErrorSites

\* C7: when PostForm fails, VerifyToken returns a verdict with success=false
\* whose error codes contain the failure; nothing is read or decoded and no
\* second POST is made.
C7_TransportFailure ==
    post.err # ErrNil =>
        /\ pc = "done"
        /\ retAt = "L150"
        /\ ~response.Success
        /\ post.err \in Codes(response)
        /\ body = NoBody
        /\ post.readErr = ErrNil
        /\ postCount = call.postsAtEntry + 1

C7_Witness ==
    /\ pc = "done"
    /\ call.kind = "VerifyToken"
    /\ post.err = "dial tcp: connect: connection refused"
    /\ response.ErrorCodes = <<"dial tcp: connect: connection refused">>

\* C8: SiteVerify posts nothing and returns success=false with one error code
\* when extraction fails or the token is empty; otherwise it is VerifyToken
\* applied to the extracted token, and SiteVerify's result is VerifyToken's.
C8_SiteVerifyDelegates ==
    call.kind = "Handler" =>
        IF extracted.err # ErrNil \/ extracted.token = ""
        THEN /\ pc = "done"
             /\ ~call.verifyToken
             /\ postCount = call.postsAtEntry
             /\ post = NoPost
             /\ ~v.Success
             /\ Len(v.ErrorCodes) = 1
        ELSE /\ call.verifyToken
             /\ call.tkn = extracted.token
             /\ post.values.response = Entry(<<extracted.token>>)
             /\ pc = "done" => v = response

C8_Witness ==
    /\ HandlerDone
    /\ call.arg.ct = "urlencoded"
    /\ Carries(req.Form, ResponseFormKey)
    /\ extracted = [token |-> "", err |-> ErrNil]
    /\ v.ErrorCodes = <<ErrEmptyForm>>
    /\ postCount = 0

\* C9: when the inbound request's context is cancelled while the middleware's
\* POST is blocked, the context the POST runs under is cancelled with it, so
\* that a transport honouring its context gives the call up.
C9_CancellationReachesPost ==
    (call.kind = "Handler" /\ Blocked /\ req.ctx.root \in cancelled) =>
        post.ctx.root \in cancelled

\* C10 as stated: the token is the named field's value from the first of
\* Form, PostForm, MultipartForm.Value that carries the field; it is empty
\* with no error only when none of the three carries the field (a field
\* carried with an empty value is taken as returned, not as missed); every
\* error of the parse but "not multipart" is returned with an empty token.
C10_FirstCarryingSource ==
    call.kind = "Handler" =>
        LET parseErr == ParseMultipartForm(call.arg).err
            inForm == Carries(req.Form, ResponseFormKey)
            inPost == Carries(req.PostForm, ResponseFormKey)
            inMulti == /\ ~req.MultipartForm.isNil
                       /\ Carries(req.MultipartForm.Value, ResponseFormKey)
        IN  IF parseErr \notin {ErrNil, ErrNotMultipart}
            THEN extracted = [token |-> "", err |-> parseErr]
            ELSE /\ extracted.err = ErrNil
                 /\ extracted.token =
                       IF inForm THEN req.Form.m[ResponseFormKey].vals[1]
                       ELSE IF inPost THEN req.PostForm.m[ResponseFormKey].vals[1]
                       ELSE IF inMulti
                       THEN req.MultipartForm.Value.m[ResponseFormKey].vals[1]
                       ELSE ""

\* C10 amended: the first of Form and PostForm that holds any field at all
\* decides: the token is the first value it holds for the named field, or
\* empty when it holds none; MultipartForm.Value is consulted only when both
\* are empty.  No error is reported in any of these cases, and every error
\* of ParseMultipartForm but "not multipart" is returned with an empty token.
C10_FirstNonEmptySource ==
    call.kind = "Handler" =>
        LET parseErr == ParseMultipartForm(call.arg).err
            inMulti == /\ ~req.MultipartForm.isNil
                       /\ Carries(req.MultipartForm.Value, ResponseFormKey)
        IN  IF parseErr \notin {ErrNil, ErrNotMultipart}
            THEN extracted = [token |-> "", err |-> parseErr]
            ELSE /\ extracted.err = ErrNil
                 /\ extracted.token =
                       IF ValuesLen(req.Form) > 0
                       THEN IF Carries(req.Form, ResponseFormKey)
                            THEN req.Form.m[ResponseFormKey].vals[1] ELSE ""
                       ELSE IF ValuesLen(req.PostForm) > 0
                       THEN IF Carries(req.PostForm, ResponseFormKey)
                            THEN req.PostForm.m[ResponseFormKey].vals[1] ELSE ""
                       ELSE IF inMulti
                       THEN req.MultipartForm.Value.m[ResponseFormKey].vals[1]
                       ELSE ""

C10_Witness ==
    /\ HandlerDone
    /\ ValuesLen(req.Form) > 0
    /\ ~Carries(req.Form, ResponseFormKey)
    /\ Carries(req.PostForm, ResponseFormKey)
    /\ extracted = [token |-> "", err |-> ErrNil]

=============================================================================
